---- MODULE Spec2Model ----
(***************************************************************************)
(* Model of QibLibrary's SQLiteLibraryConnector                            *)
(* (src/QibLibrary/library_connectors.py): the five tables of the sqlite   *)
(* schema and the operations add_book, remove_book and has_book, each      *)
(* translated statement by statement from the SQL the method executes.     *)
(***************************************************************************)
EXTENDS Integers, FiniteSets, Sequences, TLC

(* ---- bounds of the model ---- *)
MaxYear == 2
MaxQuantity == 2
MaxLog == 1
MaxItems == 3

(* ---- input domains ---- *)
Titles == {"Python 101"}
Authors == {"Monika"}
Years == 0..MaxYear
CategoryNames == {"programming", "python"}
CoauthorNames == {"Boop"}

(* An optional set (Set[str] | None): None is {}, a present set S is {S}. *)
None == {}
Some(S) == {S}
Elems(o) == UNION o
(* Python truthiness of `book.categories`: None and the empty set are falsy *)
Truthy(o) == Elems(o) # {}

OptSets(Names) == {None} \cup {Some(S) : S \in SUBSET Names}

(* The books the calls are given.  categories ranges over None, the empty  *)
(* set and every non-empty set; coauthors over None and the non-empty sets *)
(* (the present-but-empty set takes the same branches as for categories).  *)
Book == [title : Titles, author : Authors, year : Years,
         categories : OptSets(CategoryNames),
         coauthors : OptSets(CoauthorNames) \ {Some({})}]

(* ---- rows of the schema ---- *)
BookRow(book) == [title |-> book.title, author |-> book.author, year |-> book.year]
CatRow(book, cat) ==
    [title |-> book.title, author |-> book.author, year |-> book.year, category |-> cat]
CoauthorRow(book, name) ==
    [title |-> book.title, author |-> book.author, year |-> book.year, coauthor |-> name]
RowKey(r) == [title |-> r.title, author |-> r.author, year |-> r.year]

EmptyDb == [books |-> {}, categories |-> {}, coauthors |-> {},
            j_book_category |-> {}, j_book_coauthor |-> {}]

(* cats / coauthors tuples built by has_book and used by add_book's `if`s *)
TagsOf(o) == IF Truthy(o) THEN Elems(o) ELSE {}

Max(a, b) == IF a >= b THEN a ELSE b

(* variant: the WHERE clause without the year *)
MatchesBook_NoYear(r, book) ==
    r.title = book.title /\ r.author = book.author

(* ---- has_book ---- *)
(* WHERE title=? AND author=? AND year=? *)
MatchesBook(r, book) ==
    r.title = book.title /\ r.author = book.author /\ r.year = book.year

(* ON b.title=j.title AND b.author=j.author AND b.year=j.year *)
JoinOn(b, j) == b.title = j.title /\ b.author = j.author /\ b.year = j.year

(* variant: the joined statement is composed in quick mode too *)
HasBookCount_AlwaysJoined(db, book, full_check) ==
    LET cats == TagsOf(book.categories)
        coauthors == TagsOf(book.coauthors)
        jc == IF cats # {} THEN {j \in db.j_book_category : j.category \in cats} ELSE {<<>>}
        ja == IF coauthors # {} THEN {j \in db.j_book_coauthor : j.coauthor \in coauthors}
              ELSE {<<>>}
    IN  Cardinality({t \in db.books \X jc \X ja :
            /\ MatchesBook_NoYear(t[1], book) /\ t[1].year = book.year
            /\ (cats # {} => JoinOn(t[1], t[2]))
            /\ (coauthors # {} => JoinOn(t[1], t[3]))})

(* SELECT COUNT(1) of the statement has_book composes *)
HasBookCount(db, book, full_check) ==
    LET cats == TagsOf(book.categories)
        coauthors == TagsOf(book.coauthors)
    IN  IF ~full_check
        THEN Cardinality({b \in db.books : MatchesBook(b, book)})
        ELSE IF cats # {} /\ coauthors # {}
        THEN Cardinality({t \in db.books \X db.j_book_category \X db.j_book_coauthor :
                 /\ JoinOn(t[1], t[2]) /\ JoinOn(t[1], t[3])
                 /\ MatchesBook(t[1], book)
                 /\ t[2].category \in cats /\ t[3].coauthor \in coauthors})
        ELSE IF cats # {}
        THEN Cardinality({t \in db.books \X db.j_book_category :
                 /\ JoinOn(t[1], t[2])
                 /\ MatchesBook(t[1], book)
                 /\ t[2].category \in cats})
        ELSE IF coauthors # {}
        THEN Cardinality({t \in db.books \X db.j_book_coauthor :
                 /\ JoinOn(t[1], t[2])
                 /\ MatchesBook(t[1], book)
                 /\ t[2].coauthor \in coauthors})
        ELSE Cardinality({b \in db.books : MatchesBook(b, book)})

(* variant: the sizes are not floored at 1 *)
has_book_NoFloor(db, book, full_check) ==
    LET total_entries == HasBookCount(db, book, full_check)
        i == Cardinality(TagsOf(book.categories))
        j == Cardinality(TagsOf(book.coauthors))
    IN  IF ~full_check THEN total_entries > 0 ELSE total_entries = i * j

has_book(db, book, full_check) ==
    LET total_entries == HasBookCount(db, book, full_check)
        i == Max(Cardinality(TagsOf(book.categories)), 1)
        j == Max(Cardinality(TagsOf(book.coauthors)), 1)
    IN  IF ~full_check THEN total_entries > 0 ELSE total_entries = i * j

(* variant: the books table without CHECK (year > 0) *)
InsertBook_NoCheck(s, book) ==
    IF s.err THEN s
    ELSE IF BookRow(book) \in s.db.books
    THEN [s EXCEPT !.err = TRUE]
    ELSE [s EXCEPT !.db.books = @ \cup {BookRow(book)}]

(* ---- statements of add_book's try block ---- *)
(* s = [err, db]: the tables inside the transaction and whether a          *)
(* statement has raised sqlite3.Error, which skips the rest of the block   *)

(* INSERT INTO books: CHECK (year > 0) and the primary key *)
InsertBook(s, book) ==
    IF s.err THEN s
    ELSE IF ~(book.year > 0) \/ BookRow(book) \in s.db.books
    THEN [s EXCEPT !.err = TRUE]
    ELSE [s EXCEPT !.db.books = @ \cup {BookRow(book)}]

(* variant: INSERT INTO categories without ON CONFLICT DO NOTHING *)
InsertCategories_NoOnConflict(s, book) ==
    IF s.err THEN s
    ELSE IF Elems(book.categories) \cap s.db.categories # {}
    THEN [s EXCEPT !.err = TRUE]
    ELSE [s EXCEPT !.db.categories = @ \cup Elems(book.categories)]

(* INSERT INTO categories ... ON CONFLICT DO NOTHING *)
InsertCategories(s, book) ==
    IF s.err THEN s
    ELSE [s EXCEPT !.db.categories = @ \cup Elems(book.categories)]

(* INSERT INTO j_book_category ... ON CONFLICT DO NOTHING, both foreign keys *)
InsertBookCategories(s, book) ==
    IF s.err THEN s
    ELSE IF \E cat \in Elems(book.categories) :
                BookRow(book) \notin s.db.books \/ cat \notin s.db.categories
    THEN [s EXCEPT !.err = TRUE]
    ELSE [s EXCEPT !.db.j_book_category =
                       @ \cup {CatRow(book, cat) : cat \in Elems(book.categories)}]

(* INSERT INTO coauthors ... ON CONFLICT DO NOTHING *)
InsertCoauthors(s, book) ==
    IF s.err THEN s
    ELSE [s EXCEPT !.db.coauthors = @ \cup Elems(book.coauthors)]

(* INSERT INTO j_book_coauthor ... ON CONFLICT DO NOTHING, both foreign keys *)
InsertBookCoauthors(s, book) ==
    IF s.err THEN s
    ELSE IF \E name \in Elems(book.coauthors) :
                BookRow(book) \notin s.db.books \/ name \notin s.db.coauthors
    THEN [s EXCEPT !.err = TRUE]
    ELSE [s EXCEPT !.db.j_book_coauthor =
                       @ \cup {CoauthorRow(book, name) : name \in Elems(book.coauthors)}]

(* variant: no has_book guard, and the books INSERT written with           *)
(* ON CONFLICT DO NOTHING like the four statements after it                *)
add_book_Upsert(db, book) ==
    LET s0 == [err |-> FALSE, db |-> db]
        s1 == IF ~(book.year > 0)
              THEN [s0 EXCEPT !.err = TRUE]
              ELSE [s0 EXCEPT !.db.books = @ \cup {BookRow(book)}]
        s2 == IF Truthy(book.categories)
              THEN InsertBookCategories(InsertCategories(s1, book), book)
              ELSE s1
        s3 == IF Truthy(book.coauthors)
              THEN InsertBookCoauthors(InsertCoauthors(s2, book), book)
              ELSE s2
    IN  IF s3.err
        THEN [ret |-> FALSE, db |-> db]
        ELSE [ret |-> TRUE, db |-> s3.db]

(* ---- add_book: [ret, db] ---- *)
(* except sqlite3.Error: rollback() restores the tables the call started   *)
(* from and the call returns False; otherwise commit() and True            *)
add_book(db, book) ==
    IF has_book(db, book, FALSE)
    THEN [ret |-> FALSE, db |-> db]
    ELSE LET s1 == InsertBook([err |-> FALSE, db |-> db], book)
             s2 == IF Truthy(book.categories)
                   THEN InsertBookCategories(InsertCategories(s1, book), book)
                   ELSE s1
             s3 == IF Truthy(book.coauthors)
                   THEN InsertBookCoauthors(InsertCoauthors(s2, book), book)
                   ELSE s2
         IN  IF s3.err
             THEN [ret |-> FALSE, db |-> db]
             ELSE [ret |-> TRUE, db |-> s3.db]

(* variant: DELETE ... WHERE title=? AND author=? *)
DeleteBook_ByTitleAuthor(db, book) ==
    LET deleted == {b \in db.books : b.title = book.title /\ b.author = book.author}
    IN  [db EXCEPT !.books = @ \ deleted,
                   !.j_book_category = {j \in @ : RowKey(j) \notin deleted},
                   !.j_book_coauthor = {j \in @ : RowKey(j) \notin deleted}]

(* variant: foreign keys not enforced, so nothing cascades *)
DeleteBook_NoCascade(db, book) ==
    [db EXCEPT !.books = {b \in @ : ~MatchesBook(b, book)}]

(* variant: the tags of the deleted book are deleted with it, and that     *)
(* delete cascades over the junction tables' tag foreign key                *)
DeleteBook_PurgeTags(db, book) ==
    LET deleted == {b \in db.books : MatchesBook(b, book)}
        cats == {j.category : j \in {r \in db.j_book_category : RowKey(r) \in deleted}}
        names == {j.coauthor : j \in {r \in db.j_book_coauthor : RowKey(r) \in deleted}}
    IN  [db EXCEPT !.books = @ \ deleted,
                   !.categories = @ \ cats,
                   !.coauthors = @ \ names,
                   !.j_book_category =
                       {j \in @ : RowKey(j) \notin deleted /\ j.category \notin cats},
                   !.j_book_coauthor =
                       {j \in @ : RowKey(j) \notin deleted /\ j.coauthor \notin names}]

(* ---- remove_book ---- *)
(* DELETE FROM books WHERE title=? AND author=? AND year=?, with the       *)
(* junction tables' ON DELETE CASCADE on their books foreign key           *)
DeleteBook(db, book) ==
    LET deleted == {b \in db.books : MatchesBook(b, book)}
    IN  [db EXCEPT !.books = @ \ deleted,
                   !.j_book_category = {j \in @ : RowKey(j) \notin deleted},
                   !.j_book_coauthor = {j \in @ : RowKey(j) \notin deleted}]

(* variant: no has_book guard *)
remove_book_NoGuard(db, book) ==
    [ret |-> TRUE, db |-> DeleteBook(db, book)]

remove_book(db, book) ==
    IF ~has_book(db, book, FALSE)
    THEN [ret |-> FALSE, db |-> db]
    ELSE [ret |-> TRUE, db |-> DeleteBook(db, book)]

(* ---- add_book when the storage engine fails a statement ---- *)
(* the statements of the try block, in the order add_book executes them *)
AddStatements == {"books", "categories", "j_book_category", "coauthors", "j_book_coauthor"}

(* cur.execute / cur.executemany of statement stmt: it raises sqlite3.Error *)
(* when stmt is the statement the storage engine fails, else it yields out  *)
Execute(s, stmt, out) ==
    IF ~s.err /\ s.fault = stmt THEN [s EXCEPT !.err = TRUE, !.failed = stmt] ELSE out

(* the try block of add_book on tables db, statement fault failing *)
AddBookTry(db, book, fault) ==
    LET s0 == [err |-> FALSE, db |-> db, fault |-> fault, failed |-> "none"]
        s1 == Execute(s0, "books", InsertBook(s0, book))
        s2 == Execute(s1, "categories", InsertCategories(s1, book))
        s3 == Execute(s2, "j_book_category", InsertBookCategories(s2, book))
        s4 == IF Truthy(book.categories) THEN s3 ELSE s1
        s5 == Execute(s4, "coauthors", InsertCoauthors(s4, book))
        s6 == Execute(s5, "j_book_coauthor", InsertBookCoauthors(s5, book))
    IN  IF Truthy(book.coauthors) THEN s6 ELSE s4

(* variant: the except branch returns False without rollback() *)
add_book_storage_error_NoRollback(db, book, fault) ==
    IF has_book(db, book, FALSE)
    THEN [ret |-> FALSE, db |-> db, failed |-> "none"]
    ELSE LET s == AddBookTry(db, book, fault)
         IN  [ret |-> ~s.err, db |-> s.db, failed |-> s.failed]

(* add_book with statement fault failing: [ret, db, failed]; failed is the *)
(* statement that raised the injected error, "none" when it was not reached *)
add_book_storage_error(db, book, fault) ==
    IF has_book(db, book, FALSE)
    THEN [ret |-> FALSE, db |-> db, failed |-> "none"]
    ELSE LET s == AddBookTry(db, book, fault)
         IN  IF s.err
             THEN [ret |-> FALSE, db |-> db, failed |-> s.failed]
             ELSE [ret |-> TRUE, db |-> s.db, failed |-> "none"]

(* ---- letter case of the strings of the model ---- *)
(* str.upper() and str.lower() on the titles, authors and tags in use *)
Upper(str) ==
    CASE str \in {"Python 101", "python 101", "PYTHON 101"} -> "PYTHON 101"
      [] str \in {"Monika", "monika", "MONIKA"} -> "MONIKA"
      [] str \in {"programming", "PROGRAMMING"} -> "PROGRAMMING"
      [] str \in {"python", "PYTHON"} -> "PYTHON"
      [] str \in {"Boop", "boop", "BOOP"} -> "BOOP"
      [] OTHER -> str

Lower(str) ==
    CASE str \in {"Python 101", "python 101", "PYTHON 101"} -> "python 101"
      [] str \in {"Monika", "monika", "MONIKA"} -> "monika"
      [] str \in {"programming", "PROGRAMMING"} -> "programming"
      [] str \in {"python", "PYTHON"} -> "python"
      [] str \in {"Boop", "boop", "BOOP"} -> "boop"
      [] OTHER -> str

(* ---- queries ---- *)
(* a query value with the type isinstance() tests: str, int, tuple or Set *)
StrQuery(v) == [kind |-> "str", value |-> v]
IntQuery(v) == [kind |-> "int", value |-> v]
TupleQuery(v) == [kind |-> "tuple", value |-> v]
SetQuery(v) == [kind |-> "set", value |-> v]
NoQuery == [kind |-> "none", value |-> ""]

(* isinstance(query, (Set, tuple, list)) *)
IsCollection(query) == query.kind \in {"set", "tuple"}

CaseVariants(Names) == Names \cup {Upper(n) : n \in Names} \cup {Lower(n) : n \in Names}

TitleQueries == {StrQuery(t) : t \in CaseVariants(Titles) \cup {"this should fail"}}
AuthorQueries == {StrQuery(a) : a \in CaseVariants(Authors) \cup {"Mr. I don't exist"}}
YearQueries ==
    {IntQuery(y) : y \in 0..(MaxYear + 1)}
        \cup {TupleQuery(<<lo, hi>>) : lo \in 0..(MaxYear + 1), hi \in 0..(MaxYear + 1)}
TagQueries(Names) ==
    {StrQuery(n) : n \in CaseVariants(Names)}
        \cup {SetQuery(S) : S \in SUBSET Names}
        \cup {SetQuery({Upper(n) : n \in S}) : S \in SUBSET Names}
        \cup {SetQuery({Lower(n) : n \in S}) : S \in SUBSET Names}
CategoryQueries == TagQueries(CategoryNames)
CoauthorQueries == TagQueries(CoauthorNames)

(* ---- searches ---- *)
(* A cursor is the set of rows a SELECT yields: row is the (title, author, *)
(* year) selected, via the tag of the junction row it was joined with      *)
(* (NoJoin when the statement has no join or is SELECT DISTINCT).          *)
NoJoin == ""
Selected(rows) == {[row |-> r, via |-> NoJoin] : r \in rows}

(* _execute_get_sub_attrs on the two statements _execute_search gives it *)
execute_get_categories(db, row) ==
    {j.category : j \in {r \in db.j_book_category : JoinOn(r, row)}}
execute_get_coauthors(db, row) ==
    {j.coauthor : j \in {r \in db.j_book_coauthor : JoinOn(r, row)}}

(* Book(title=, author=, year=, categories=frozenset, coauthors=frozenset) *)
Hydrate(db, row) ==
    [title |-> row.title, author |-> row.author, year |-> row.year,
     categories |-> Some(execute_get_categories(db, row)),
     coauthors |-> Some(execute_get_coauthors(db, row))]

(* variant: only the tags the statement joined on are put into the book *)
execute_search_MatchedTagsOnly(db, cursor) ==
    {[book |-> [title |-> r.title, author |-> r.author, year |-> r.year,
                categories |-> Some({c.via :
                                  c \in {x \in cursor : x.row = r /\ x.via # NoJoin}}),
                coauthors |-> Some(execute_get_coauthors(db, r))],
      count |-> Cardinality({c \in cursor : c.row = r})] : r \in {c.row : c \in cursor}}

(* _execute_search: the returned tuple, as the books in it and how often   *)
(* each occurs (the order of the rows is the storage engine's)             *)
execute_search(db, cursor) ==
    {[book |-> Hydrate(db, r),
      count |-> Cardinality({c \in cursor : c.row = r})] : r \in {c.row : c \in cursor}}

(* SELECT * FROM books WHERE title=? *)
search_title(db, query) ==
    execute_search(db, Selected({b \in db.books : b.title = query.value}))

(* SELECT * FROM books WHERE author=? *)
search_author(db, query) ==
    execute_search(db, Selected({b \in db.books : b.author = query.value}))

(* variant: the range excludes its upper bound *)
search_year_HalfOpen(db, query) ==
    IF IsCollection(query)
    THEN execute_search(db, Selected({b \in db.books :
             b.year >= query.value[1] /\ b.year < query.value[2]}))
    ELSE execute_search(db, Selected({b \in db.books : b.year = query.value}))

(* WHERE year BETWEEN ? AND ?, or WHERE year=? *)
search_year(db, query) ==
    IF IsCollection(query)
    THEN execute_search(db, Selected({b \in db.books :
             b.year >= query.value[1] /\ b.year <= query.value[2]}))
    ELSE execute_search(db, Selected({b \in db.books : b.year = query.value}))

(* variant: SELECT without DISTINCT for a collection of tags *)
search_category_NoDistinct(db, query) ==
    IF IsCollection(query)
    THEN execute_search(db, {[row |-> t[1], via |-> t[2].category] :
             t \in {x \in db.books \X db.j_book_category :
                        JoinOn(x[1], x[2]) /\ x[2].category \in query.value}})
    ELSE execute_search(db, {[row |-> t[1], via |-> t[2].category] :
             t \in {x \in db.books \X db.j_book_category :
                        JoinOn(x[1], x[2]) /\ x[2].category = query.value}})

(* SELECT DISTINCT ... WHERE junction.category IN (...), or                *)
(* SELECT ... WHERE junction.category=?                                    *)
search_category(db, query) ==
    IF IsCollection(query)
    THEN execute_search(db, Selected({b \in db.books :
             \E j \in db.j_book_category : JoinOn(b, j) /\ j.category \in query.value}))
    ELSE execute_search(db, {[row |-> t[1], via |-> t[2].category] :
             t \in {x \in db.books \X db.j_book_category :
                        JoinOn(x[1], x[2]) /\ x[2].category = query.value}})

search_coauthor(db, query) ==
    IF IsCollection(query)
    THEN execute_search(db, Selected({b \in db.books :
             \E j \in db.j_book_coauthor : JoinOn(b, j) /\ j.coauthor \in query.value}))
    ELSE execute_search(db, {[row |-> t[1], via |-> t[2].coauthor] :
             t \in {x \in db.books \X db.j_book_coauthor :
                        JoinOn(x[1], x[2]) /\ x[2].coauthor = query.value}})

(* variant: __eq__ compares the identity triple only *)
BookEq_IdentityOnly(b1, b2) ==
    <<b1.title, b1.author, b1.year>> = <<b2.title, b2.author, b2.year>>

(* Book.__eq__ of the dataclass: the five fields compared as a tuple; a    *)
(* set equals a frozenset with the same elements, None equals only None    *)
BookEq(b1, b2) ==
    <<b1.title, b1.author, b1.year, b1.categories, b1.coauthors>>
        = <<b2.title, b2.author, b2.year, b2.categories, b2.coauthors>>

(* ---- library_backend: the connector without guard and rollback ---- *)
(* s = [err, db] as above; reached: the rows an executemany gets to before *)
(* the row that fails (the iteration order of the set of tags decides it)  *)

(* INSERT INTO books (title, author, year) VALUES (?, ?, ?) *)
backend_InsertBook(s, book) ==
    IF s.err THEN s
    ELSE IF ~(book.year > 0) \/ BookRow(book) \in s.db.books
    THEN [s EXCEPT !.err = TRUE]
    ELSE [s EXCEPT !.db.books = @ \cup {BookRow(book)}]

(* executemany of INSERT INTO categories (name) VALUES (?): name is the    *)
(* primary key, a row already there fails the call at that row             *)
backend_InsertCategories(s, book, reached) ==
    LET tags == Elems(book.categories)
    IN  IF s.err THEN s
        ELSE IF tags \cap s.db.categories # {}
        THEN [s EXCEPT !.err = TRUE,
                       !.db.categories = @ \cup (reached \cap tags)]
        ELSE [s EXCEPT !.db.categories = @ \cup tags]

(* executemany of INSERT INTO j_book_category: PRIMARY KEY (title, year,   *)
(* category), foreign keys to books and categories                         *)
backend_InsertBookCategories(s, book, reached) ==
    LET tags == Elems(book.categories)
        Taken(cat) == \E j \in s.db.j_book_category :
                          /\ j.title = book.title /\ j.year = book.year
                          /\ j.category = cat
        Bad(cat) == \/ Taken(cat)
                    \/ BookRow(book) \notin s.db.books
                    \/ cat \notin s.db.categories
    IN  IF s.err THEN s
        ELSE IF \E cat \in tags : Bad(cat)
        THEN [s EXCEPT !.err = TRUE,
                       !.db.j_book_category =
                           @ \cup {CatRow(book, cat) :
                                      cat \in {c \in reached \cap tags : ~Bad(c)}}]
        ELSE [s EXCEPT !.db.j_book_category =
                           @ \cup {CatRow(book, cat) : cat \in tags}]

(* executemany of INSERT INTO coauthors (name) VALUES (?) *)
backend_InsertCoauthors(s, book, reached) ==
    LET tags == Elems(book.coauthors)
    IN  IF s.err THEN s
        ELSE IF tags \cap s.db.coauthors # {}
        THEN [s EXCEPT !.err = TRUE,
                       !.db.coauthors = @ \cup (reached \cap tags)]
        ELSE [s EXCEPT !.db.coauthors = @ \cup tags]

(* executemany of INSERT INTO j_book_coauthor: PRIMARY KEY (title, year,   *)
(* coauthor), foreign keys to books and coauthors                          *)
backend_InsertBookCoauthors(s, book, reached) ==
    LET tags == Elems(book.coauthors)
        Taken(name) == \E j \in s.db.j_book_coauthor :
                           /\ j.title = book.title /\ j.year = book.year
                           /\ j.coauthor = name
        Bad(name) == \/ Taken(name)
                     \/ BookRow(book) \notin s.db.books
                     \/ name \notin s.db.coauthors
    IN  IF s.err THEN s
        ELSE IF \E name \in tags : Bad(name)
        THEN [s EXCEPT !.err = TRUE,
                       !.db.j_book_coauthor =
                           @ \cup {CoauthorRow(book, name) :
                                      name \in {c \in reached \cap tags : ~Bad(c)}}]
        ELSE [s EXCEPT !.db.j_book_coauthor =
                           @ \cup {CoauthorRow(book, name) : name \in tags}]

(* variant: the except branch calls rollback() before it returns False *)
backend_add_book_Rollback(b, book, reached) ==
    LET s1 == backend_InsertBook([err |-> FALSE, db |-> b.conn], book)
        s2 == IF Truthy(book.categories)
              THEN backend_InsertBookCategories(
                       backend_InsertCategories(s1, book, reached), book, reached)
              ELSE s1
        s3 == IF Truthy(book.coauthors)
              THEN backend_InsertBookCoauthors(
                       backend_InsertCoauthors(s2, book, reached), book, reached)
              ELSE s2
    IN  IF s3.err
        THEN [ret |-> FALSE, conn |-> b.disk, disk |-> b.disk]
        ELSE [ret |-> TRUE, conn |-> s3.db, disk |-> s3.db]

(* library_backend add_book on b = [conn, disk]: conn is the tables as the *)
(* connection sees them, its open transaction included, disk the committed *)
(* tables.  On sqlite3.Error it returns False and leaves the transaction   *)
(* open; commit() makes everything the connection holds durable.           *)
backend_add_book(b, book, reached) ==
    LET s1 == backend_InsertBook([err |-> FALSE, db |-> b.conn], book)
        s2 == IF Truthy(book.categories)
              THEN backend_InsertBookCategories(
                       backend_InsertCategories(s1, book, reached), book, reached)
              ELSE s1
        s3 == IF Truthy(book.coauthors)
              THEN backend_InsertBookCoauthors(
                       backend_InsertCoauthors(s2, book, reached), book, reached)
              ELSE s2
    IN  IF s3.err
        THEN [ret |-> FALSE, conn |-> s3.db, disk |-> b.disk]
        ELSE [ret |-> TRUE, conn |-> s3.db, disk |-> s3.db]

(* ---- Session ---- *)
(* the attributes of the tests and of main(), and the values set to them *)
AttrNames == {"aKeyThatDoesNotExist", "keyThatHoldsData", "cart"}
AttrValues == {"aValue", "anotherValue"}

(* a new Session: its __dict__ is empty *)
NewSession == [n \in {} |-> "aValue"]

(* __setattr__: self.__dict__[__name] = __value *)
Session_setattr(dict, name, value) ==
    [n \in DOMAIN dict \cup {name} |-> IF n = name THEN value ELSE dict[n]]

(* attribute read: Session defines no __getattr__, so object's lookup      *)
(* applies: the value in __dict__, AttributeError when the name is not set *)
Session_getattr(dict, name) ==
    IF name \in DOMAIN dict
    THEN [raised |-> FALSE, value |-> Some(dict[name])]
    ELSE [raised |-> TRUE, value |-> None]

(* ---- frontend: tables and the table menu ---- *)
(* row.toTuple(), which buildTable requires of its rows: the cells of the  *)
(* five columns main() asks for                                            *)
toTuple(book) == <<book.title, book.author, book.year, book.categories, book.coauthors>>

(* ["Title", "Author", "Year", "Categories", "Co-authors"] *)
Header == <<"Title", "Author", "Year", "Categories", "Co-authors">>

(* the lines of a table: the top and bottom border, the split line between *)
(* two rows, and a row of cells                                            *)
TableBorder == [line |-> "border", cells |-> <<>>]
TableSplit == [line |-> "split", cells |-> <<>>]
formatRow(row) == [line |-> "row", cells |-> row]

(* buildTableWithCellLengths: border, header, split, then every row        *)
(* followed by a split, the last one by the border (line i here is rv[i-1])*)
buildTableWithCellLengths(header, rows) ==
    [i \in 1..(3 + 2 * Len(rows)) |->
        IF i = 1 THEN TableBorder
        ELSE IF i = 2 THEN formatRow(header)
        ELSE IF i = 3 THEN TableSplit
        ELSE IF i % 2 = 0 THEN formatRow(toTuple(rows[(i - 2) \div 2]))
        ELSE IF i = 3 + 2 * Len(rows) THEN TableBorder
        ELSE TableSplit]

(* buildTable: the cell lengths only pad the text of the cells *)
buildTable(header, rows) == buildTableWithCellLengths(header, rows)

(* tableMenu's option list: the results of the MenuOptions made for        *)
(* table_rows[2:], Some(item) for a row (odd index) and None for a         *)
(* separator; option k here is menu_items[k - 1]                           *)
MenuItems(table_rows, items) ==
    [k \in 1..(Len(table_rows) - 2) |->
        LET index == k + 1
        IN  IF index % 2 > 0 THEN Some(items[(index \div 2) - 1 + 1]) ELSE None]

(* variant: the cursor moves by one option *)
key_down_ByOne(current_item, menu_items) ==
    IF current_item + 1 > Len(menu_items) - 1 THEN 1 ELSE current_item + 1

(* KEY_DOWN: current_item += 2, back to 1 past the last option *)
key_down(current_item, menu_items) ==
    IF current_item + 2 > Len(menu_items) - 1 THEN 1 ELSE current_item + 2

(* KEY_UP: current_item -= 2, to len(menu_items) - 2 below 0 *)
key_up(current_item, menu_items) ==
    IF current_item - 2 < 0 THEN Len(menu_items) - 2 ELSE current_item - 2

(* menu_items[current_item].result with Python's indexing: a negative      *)
(* index counts from the end, an index out of range raises IndexError      *)
menu_result(menu_items, current_item) ==
    LET n == Len(menu_items)
    IN  IF current_item \in 0..(n - 1)
        THEN [raised |-> FALSE, value |-> menu_items[current_item + 1]]
        ELSE IF current_item \in (0 - n)..(0 - 1)
        THEN [raised |-> FALSE, value |-> menu_items[n + current_item + 1]]
        ELSE [raised |-> TRUE, value |-> None]

(* ---- the session cart ---- *)
(* _SESSION.cart, a defaultdict(int): the entries [book, amt] in the order *)
(* their keys were inserted                                                *)
EmptyCart == <<>>

(* list(_SESSION.cart.keys()) *)
cart_keys(cart) == [i \in 1..Len(cart) |-> cart[i].book]

cart_has(cart, book) == \E i \in 1..Len(cart) : BookEq(cart[i].book, book)

(* _SESSION.cart[book] += 1: a missing key starts from int() = 0 *)
add_to_cart(cart, book) ==
    IF cart_has(cart, book)
    THEN [i \in 1..Len(cart) |->
             IF BookEq(cart[i].book, book)
             THEN [cart[i] EXCEPT !.amt = @ + 1] ELSE cart[i]]
    ELSE Append(cart, [book |-> book, amt |-> 1])

(* variant: the entry is popped when the quantity is below zero *)
remove_from_cart_PopBelowZero(cart, book) ==
    LET c0 == IF cart_has(cart, book) THEN cart
              ELSE Append(cart, [book |-> book, amt |-> 0])
        c1 == [i \in 1..Len(c0) |->
                  IF BookEq(c0[i].book, book) /\ c0[i].amt > 0
                  THEN [c0[i] EXCEPT !.amt = @ - 1] ELSE c0[i]]
        Keep(e) == ~(BookEq(e.book, book) /\ e.amt < 0)
    IN  SelectSeq(c1, Keep)

(* if cart[book] > 0: cart[book] -= 1; if cart[book] == 0: cart.pop(book)  *)
(* (reading a missing key inserts it with 0)                               *)
remove_from_cart(cart, book) ==
    LET c0 == IF cart_has(cart, book) THEN cart
              ELSE Append(cart, [book |-> book, amt |-> 0])
        c1 == [i \in 1..Len(c0) |->
                  IF BookEq(c0[i].book, book) /\ c0[i].amt > 0
                  THEN [c0[i] EXCEPT !.amt = @ - 1] ELSE c0[i]]
        Keep(e) == ~(BookEq(e.book, book) /\ e.amt = 0)
    IN  SelectSeq(c1, Keep)

(* f"{amt}x {book.title} by {book.author}\n" for every item of the cart *)
checkout_items(cart) ==
    [i \in 1..Len(cart) |->
        [amt |-> cart[i].amt, title |-> cart[i].book.title,
         author |-> cart[i].book.author]]

(* variant: the cart is cleared before the message is composed *)
checkout_ClearFirst(cart, log, checkout_cart) ==
    IF checkout_cart
    THEN [log |-> Append(log, checkout_items(EmptyCart)), cart |-> EmptyCart]
    ELSE [log |-> log, cart |-> cart]

(* checkout() after the menu has answered checkout_cart: the message of    *)
(* one _LOGGER.info call is appended to the log, then the cart is cleared  *)
checkout(cart, log, checkout_cart) ==
    IF checkout_cart
    THEN [log |-> Append(log, checkout_items(cart)), cart |-> EmptyCart]
    ELSE [log |-> log, cart |-> cart]

(* the books main() stores into a new database *)
SeedBooks ==
    << [title |-> "Python 101", author |-> "Monika", year |-> 1,
        categories |-> Some({"programming", "python"}), coauthors |-> None],
       [title |-> "Python 101", author |-> "Monika", year |-> 2,
        categories |-> Some({"python"}), coauthors |-> Some({"Boop"})] >>

(* for book in books: connector.add_book(book) *)
RECURSIVE Seeded(_, _)
Seeded(db, n) ==
    IF n = 0 THEN db ELSE add_book(Seeded(db, n - 1), SeedBooks[n]).db

(* the text validatedInput returns for a year, and the integer the INT     *)
(* affinity of books.year turns it into for the comparison (a text that    *)
(* is no number equals no year)                                            *)
YearTexts == {"1", "2", "1925"}
YearOfText(text) ==
    CASE text = "1" -> 1
      [] text = "2" -> 2
      [] OTHER -> 1925

(* the four searches of the menu, with the text the user typed *)
ShellSearches ==
    {[by |-> "title", query |-> q] : q \in TitleQueries}
    \cup {[by |-> "author", query |-> q] : q \in AuthorQueries}
    \cup {[by |-> "year", query |-> IntQuery(YearOfText(t))] : t \in YearTexts}
    \cup {[by |-> "category", query |-> StrQuery(c)] : c \in CategoryNames}

(* result[1](search_for) *)
shell_search(db, s) ==
    CASE s.by = "title" -> search_title(db, s.query)
      [] s.by = "author" -> search_author(db, s.query)
      [] s.by = "year" -> search_year(db, s.query)
      [] OTHER -> search_category(db, s.query)

(* the sequences a returned tuple of books can be: every order of the rows *)
Orders(S) ==
    {seq \in [1..Cardinality(S) -> S] : \A i, j \in 1..Cardinality(S) :
                                            i # j => seq[i] # seq[j]}

(* ---- the state machine ---- *)
(* db: the tables as the connection sees them between two calls (every     *)
(* path of the methods that returns ends in commit or rollback, or only    *)
(* selects); pre: the tables when the last call started; op, arg,          *)
(* full_check, query: the last call and its arguments; ret: the bool it    *)
(* returned; found: the books a search returned; raised: it raised to its  *)
(* caller instead of returning; fault: the statement of add_book that the  *)
(* storage engine failed; closed: close() has closed the connection.       *)
VARIABLES db, pre, op, arg, full_check, ret, query, found, fault, closed, raised,
          backend, session, attr, got, other, removed,
          pc, cart, log, items, selected, menu_items, current_item

(* backend: library_backend's connection, [conn, disk]; session: the       *)
(* __dict__ of a Session, attr the attribute last set or read and got the  *)
(* value read; other: the right operand of the last ==; removed: the book  *)
(* of the last successful remove_book of an update; the rest is the shell. *)
shellvars == <<pc, cart, log, items, selected, menu_items, current_item>>
vars == <<db, pre, op, arg, full_check, ret, query, found, fault, closed, raised,
          backend, session, attr, got, other, removed,
          pc, cart, log, items, selected, menu_items, current_item>>

NoBook == CHOOSE b \in Book : TRUE

(* no backend rows, a new Session, the shell in main()'s loop with the    *)
(* cart main() creates                                                     *)
InitOthers ==
    /\ backend = [conn |-> EmptyDb, disk |-> EmptyDb]
    /\ session = NewSession
    /\ attr = "cart"
    /\ got = None
    /\ other = NoBook
    /\ removed = None
    /\ pc = "main"
    /\ cart = EmptyCart
    /\ log = <<>>
    /\ items = <<>>
    /\ selected = None
    /\ menu_items = <<>>
    /\ current_item = 1

Init ==
    /\ db = EmptyDb
    /\ pre = EmptyDb
    /\ op = "init"
    /\ arg = NoBook
    /\ full_check = FALSE
    /\ ret = FALSE
    /\ query = NoQuery
    /\ found = {}
    /\ fault = "none"
    /\ closed = FALSE
    /\ raised = FALSE
    /\ InitOthers

(* a call of a method of the connector *)
Called(o, book, full, q) ==
    /\ op' = o
    /\ arg' = book
    /\ full_check' = full
    /\ query' = q
    /\ pre' = db
    /\ UNCHANGED <<backend, session, attr, got, other>>
    /\ UNCHANGED shellvars

(* the call that is made *)
Call(o, book, full, q) ==
    /\ Called(o, book, full, q)
    /\ UNCHANGED removed

(* the call returns r (a bool) or f (the books of a search), leaving tables d *)
Return(r, f, d) ==
    /\ ret' = r
    /\ found' = f
    /\ db' = d
    /\ raised' = FALSE
    /\ fault' = "none"
    /\ UNCHANGED closed

(* On a closed connection execute() raises sqlite3.ProgrammingError; the   *)
(* except branch calls rollback(), which raises it again, out of the       *)
(* method.                                                                 *)
Raise ==
    /\ raised' = TRUE
    /\ ret' = FALSE
    /\ found' = {}
    /\ fault' = "none"
    /\ UNCHANGED <<db, closed>>

AddBookFrom(B) ==
    \E book \in B :
        /\ Call("add_book", book, FALSE, NoQuery)
        /\ IF closed THEN Raise
           ELSE LET r == add_book(db, book) IN Return(r.ret, {}, r.db)

RemoveBookFrom(B) ==
    \E book \in B :
        /\ Call("remove_book", book, FALSE, NoQuery)
        /\ IF closed THEN Raise
           ELSE LET r == remove_book(db, book) IN Return(r.ret, {}, r.db)

AddBook == AddBookFrom(Book)

RemoveBook == RemoveBookFrom(Book)

(* variant: the existence check leaves the row it probed with in books *)
HasBook_Inserting ==
    \E book \in Book, full \in BOOLEAN :
        /\ Call("has_book", book, full, NoQuery)
        /\ IF closed THEN Raise
           ELSE Return(has_book(db, book, full), {},
                       [db EXCEPT !.books = @ \cup {BookRow(book)}])

HasBook ==
    \E book \in Book, full \in BOOLEAN :
        /\ Call("has_book", book, full, NoQuery)
        /\ IF closed THEN Raise
           ELSE Return(has_book(db, book, full), {}, db)

(* add_book while the storage engine fails one statement of its try block *)
AddBookStorageError ==
    \E book \in Book, stmt \in AddStatements :
        /\ Call("add_book", book, FALSE, NoQuery)
        /\ IF closed THEN Raise
           ELSE LET r == add_book_storage_error(db, book, stmt)
                IN  /\ ret' = r.ret
                    /\ db' = r.db
                    /\ fault' = r.failed
                    /\ found' = {}
                    /\ raised' = FALSE
                    /\ UNCHANGED closed

SearchTitle ==
    \E q \in TitleQueries :
        /\ Call("search_title", NoBook, FALSE, q)
        /\ IF closed THEN Raise ELSE Return(FALSE, search_title(db, q), db)

SearchAuthor ==
    \E q \in AuthorQueries :
        /\ Call("search_author", NoBook, FALSE, q)
        /\ IF closed THEN Raise ELSE Return(FALSE, search_author(db, q), db)

SearchYear ==
    \E q \in YearQueries :
        /\ Call("search_year", NoBook, FALSE, q)
        /\ IF closed THEN Raise ELSE Return(FALSE, search_year(db, q), db)

SearchCategory ==
    \E q \in CategoryQueries :
        /\ Call("search_category", NoBook, FALSE, q)
        /\ IF closed THEN Raise ELSE Return(FALSE, search_category(db, q), db)

SearchCoauthor ==
    \E q \in CoauthorQueries :
        /\ Call("search_coauthor", NoBook, FALSE, q)
        /\ IF closed THEN Raise ELSE Return(FALSE, search_coauthor(db, q), db)

(* close(): __del__ closes the connection; closing twice is allowed *)
Close ==
    /\ Call("close", NoBook, FALSE, NoQuery)
    /\ closed' = TRUE
    /\ ret' = FALSE
    /\ found' = {}
    /\ raised' = FALSE
    /\ fault' = "none"
    /\ UNCHANGED db

(* ---- library_backend's connector ---- *)
BackendAddBook ==
    \E book \in Book, reached \in SUBSET (CategoryNames \cup CoauthorNames) :
        LET r == backend_add_book(backend, book, reached)
        IN  /\ op' = "backend_add_book"
            /\ arg' = book
            /\ pre' = backend.conn
            /\ ret' = r.ret
            /\ backend' = [conn |-> r.conn, disk |-> r.disk]
            /\ UNCHANGED <<db, full_check, query, found, fault, closed, raised>>
            /\ UNCHANGED <<session, attr, got, other, removed>>
            /\ UNCHANGED shellvars

(* ---- Session ---- *)
SessionSetAttr ==
    \E name \in AttrNames, value \in AttrValues :
        /\ op' = "setattr"
        /\ attr' = name
        /\ session' = Session_setattr(session, name, value)
        /\ got' = None
        /\ raised' = FALSE
        /\ UNCHANGED <<db, pre, arg, full_check, ret, query, found, fault, closed>>
        /\ UNCHANGED <<backend, other, removed>>
        /\ UNCHANGED shellvars

SessionGetAttr ==
    \E name \in AttrNames :
        LET r == Session_getattr(session, name)
        IN  /\ op' = "getattr"
            /\ attr' = name
            /\ got' = r.value
            /\ raised' = r.raised
            /\ UNCHANGED <<db, pre, arg, full_check, ret, query, found, fault, closed>>
            /\ UNCHANGED <<backend, session, other, removed>>
            /\ UNCHANGED shellvars

(* ---- Book.__eq__ ---- *)
(* the books that are compared: every field takes two values or more *)
EqBooks ==
    [title : CaseVariants(Titles), author : Authors \cup CoauthorNames, year : 1..2,
     categories : OptSets({"python"}), coauthors : OptSets(CoauthorNames)]

(* arg == other, for the two books the specification starts with *)
CompareBooks ==
    /\ op = "init"
    /\ op' = "eq"
    /\ ret' = BookEq(arg, other)
    /\ UNCHANGED <<db, pre, arg, full_check, query, found, fault, closed, raised>>
    /\ UNCHANGED <<backend, session, attr, got, other, removed>>
    /\ UNCHANGED shellvars

(* ---- update by remove_book, then add_book ---- *)
(* removed: the book of the last remove_book that returned True *)
UpdateBooks == {b \in Book : b.year = MaxYear}

RemoveBookOfUpdate ==
    \E book \in UpdateBooks :
        LET r == remove_book(db, book)
        IN  /\ Called("remove_book", book, FALSE, NoQuery)
            /\ Return(r.ret, {}, r.db)
            /\ removed' = IF r.ret THEN Some(book) ELSE removed

AddBookOfUpdate ==
    \E book \in UpdateBooks :
        LET r == add_book(db, book)
        IN  /\ Called("add_book", book, FALSE, NoQuery)
            /\ Return(r.ret, {}, r.db)
            /\ UNCHANGED removed

(* ---- the interactive shell of __main__ ---- *)
(* pc: where the shell waits for the user; items: the list given to the    *)
(* open tableMenu (books in searchForBooks, the keys of the cart in        *)
(* viewCart); menu_items, current_item: tableMenu's option list and        *)
(* cursor; selected: the book tableMenu returned; cart, log: the session   *)
(* cart and the messages given to _LOGGER.info by checkout                 *)
TablePcs == {"search_table", "cart_table", "table"}

(* a step of the shell: its name and the answer the menu returned *)
ShellStep(name, answer) ==
    /\ op' = name
    /\ ret' = answer
    /\ UNCHANGED <<db, pre, arg, full_check, query, found, fault, closed, raised>>
    /\ UNCHANGED <<backend, session, attr, got, other, removed>>

(* tableMenu(prompt, buildTable(header, its), its) is called *)
OpenTable(p, its) ==
    /\ pc' = p
    /\ items' = its
    /\ menu_items' = MenuItems(buildTable(Header, its), its)
    /\ current_item' = 1

(* back in main()'s loop: the locals of the flow are gone *)
ToMain ==
    /\ pc' = "main"
    /\ items' = <<>>
    /\ menu_items' = <<>>
    /\ current_item' = 1
    /\ selected' = None

(* searchForBooks up to its first tableMenu *)
SearchForBooks ==
    /\ pc = "main"
    /\ \E s \in ShellSearches :
         LET books == {f.book : f \in shell_search(db, s)}
         IN  IF books = {}
             THEN ToMain
             ELSE /\ \E seq \in Orders(books) : OpenTable("search_table", seq)
                  /\ UNCHANGED selected
    /\ ShellStep("searchForBooks", FALSE)
    /\ UNCHANGED <<cart, log>>

KeyDown ==
    /\ pc \in TablePcs
    /\ current_item' = key_down(current_item, menu_items)
    /\ ShellStep("key_down", FALSE)
    /\ UNCHANGED <<pc, items, menu_items, selected, cart, log>>

KeyUp ==
    /\ pc \in TablePcs
    /\ current_item' = key_up(current_item, menu_items)
    /\ ShellStep("key_up", FALSE)
    /\ UNCHANGED <<pc, items, menu_items, selected, cart, log>>

(* enter or space: tableMenu returns menu_items[current_item].result; an   *)
(* IndexError is not caught by the flows (they catch KeyboardInterrupt);   *)
(* on None the flow's loop calls tableMenu again                           *)
KeyEnter ==
    /\ pc \in TablePcs
    /\ LET r == menu_result(menu_items, current_item)
       IN  IF r.raised
           THEN /\ pc' = "crashed"
                /\ UNCHANGED <<items, menu_items, current_item, selected>>
           ELSE IF pc = "table"
           THEN /\ pc' = "returned"
                /\ selected' = r.value
                /\ UNCHANGED <<items, menu_items, current_item>>
           ELSE IF r.value = None
           THEN /\ OpenTable(pc, IF pc = "cart_table" THEN cart_keys(cart) ELSE items)
                /\ selected' = None
           ELSE /\ pc' = IF pc = "cart_table" THEN "cart_menu" ELSE "search_menu"
                /\ selected' = r.value
                /\ UNCHANGED <<items, menu_items, current_item>>
    /\ ShellStep("key_enter", FALSE)
    /\ UNCHANGED <<cart, log>>

(* ctrl+c: the flows return to main()'s loop, which itself exits on it *)
Interrupt ==
    /\ pc \in {"search_table", "search_menu", "cart_table", "cart_menu",
               "checkout_menu", "main"}
    /\ IF pc \in {"checkout_menu", "main"}
       THEN /\ pc' = "exit"
            /\ UNCHANGED <<items, menu_items, current_item, selected>>
       ELSE ToMain
    /\ ShellStep("interrupt", FALSE)
    /\ UNCHANGED <<cart, log>>

(* "Add ... to cart?": Yes adds one, then the loop shows the table again *)
AnswerAddToCart ==
    /\ pc = "search_menu"
    /\ \E add_to_cart_answer \in BOOLEAN, book \in selected :
         /\ add_to_cart_answer =>
                \A i \in 1..Len(cart) :
                    BookEq(cart[i].book, book) => cart[i].amt < MaxQuantity
         /\ cart' = IF add_to_cart_answer THEN add_to_cart(cart, book) ELSE cart
         /\ ShellStep("add_to_cart", add_to_cart_answer)
    /\ OpenTable("search_table", items)
    /\ UNCHANGED <<selected, log>>

(* viewCart up to its first tableMenu *)
ViewCart ==
    /\ pc = "main"
    /\ IF cart = EmptyCart
       THEN ToMain
       ELSE OpenTable("cart_table", cart_keys(cart)) /\ UNCHANGED selected
    /\ ShellStep("viewCart", FALSE)
    /\ UNCHANGED <<cart, log>>

(* "Remove ... from cart?": Yes removes one, then the loop calls tableMenu *)
(* on the keys the cart has now                                            *)
AnswerRemove ==
    /\ pc = "cart_menu"
    /\ \E should_remove \in BOOLEAN, book \in selected :
         /\ cart' = IF should_remove THEN remove_from_cart(cart, book) ELSE cart
         /\ ShellStep("remove_from_cart", should_remove)
    /\ OpenTable("cart_table", cart_keys(cart'))
    /\ UNCHANGED <<selected, log>>

(* checkout up to its menu: an empty cart returns at once *)
Checkout ==
    /\ pc = "main"
    /\ IF cart = EmptyCart
       THEN ToMain
       ELSE /\ pc' = "checkout_menu"
            /\ UNCHANGED <<items, menu_items, current_item, selected>>
    /\ ShellStep("checkout", FALSE)
    /\ UNCHANGED <<cart, log>>

(* "Checkout?" *)
AnswerCheckout ==
    /\ pc = "checkout_menu"
    /\ \E checkout_cart \in BOOLEAN :
         LET r == checkout(cart, log, checkout_cart)
         IN  /\ checkout_cart => Len(log) < MaxLog
             /\ cart' = r.cart
             /\ log' = r.log
             /\ ShellStep("checkout_answer", checkout_cart)
    /\ ToMain

Next == AddBook \/ RemoveBook \/ HasBook

Spec == Init /\ [][Next]_vars

(* the connector with its searches *)
NextSearch ==
    \/ AddBook \/ RemoveBook
    \/ SearchTitle \/ SearchAuthor \/ SearchYear \/ SearchCategory \/ SearchCoauthor

SpecSearch == Init /\ [][NextSearch]_vars

(* add_book on a storage engine that may fail any statement *)
NextStorageError == AddBookStorageError \/ AddBook \/ RemoveBook

SpecStorageError == Init /\ [][NextStorageError]_vars

(* every operation, on a connection that may be closed *)
NextClose ==
    \/ AddBook \/ RemoveBook \/ HasBook
    \/ SearchTitle \/ SearchAuthor \/ SearchYear \/ SearchCategory \/ SearchCoauthor
    \/ Close

SpecClose == Init /\ [][NextClose]_vars

(* books of two authors that share title and year *)
BookOfTwoAuthors ==
    [title : Titles, author : {"Monika", "Boop"}, year : {MaxYear},
     categories : OptSets(CategoryNames),
     coauthors : OptSets(CoauthorNames) \ {Some({})}]

AddBookOfTwoAuthors == AddBookFrom(BookOfTwoAuthors)

RemoveBookOfTwoAuthors == RemoveBookFrom(BookOfTwoAuthors)

NextTwoAuthors == AddBookOfTwoAuthors \/ RemoveBookOfTwoAuthors

SpecTwoAuthors == Init /\ [][NextTwoAuthors]_vars

(* library_backend's connector *)
NextBackend == BackendAddBook

SpecBackend == Init /\ [][NextBackend]_vars

(* a Session whose attributes are set and read *)
NextSession == SessionSetAttr \/ SessionGetAttr

SpecSession == Init /\ [][NextSession]_vars

(* books compared with == *)
NextBookEq == CompareBooks

InitBookEq ==
    /\ db = EmptyDb
    /\ pre = EmptyDb
    /\ op = "init"
    /\ arg \in EqBooks
    /\ full_check = FALSE
    /\ ret = FALSE
    /\ query = NoQuery
    /\ found = {}
    /\ fault = "none"
    /\ closed = FALSE
    /\ raised = FALSE
    /\ backend = [conn |-> EmptyDb, disk |-> EmptyDb]
    /\ session = NewSession
    /\ attr = "cart"
    /\ got = None
    /\ other \in EqBooks
    /\ removed = None
    /\ pc = "main"
    /\ cart = EmptyCart
    /\ log = <<>>
    /\ items = <<>>
    /\ selected = None
    /\ menu_items = <<>>
    /\ current_item = 1

SpecBookEq == InitBookEq /\ [][NextBookEq]_vars

(* the connector used to update a book *)
NextUpdate == AddBookOfUpdate \/ RemoveBookOfUpdate

SpecUpdate == Init /\ [][NextUpdate]_vars

(* the shell on the database main() has seeded *)
InitShell ==
    /\ db = Seeded(EmptyDb, Len(SeedBooks))
    /\ pre = EmptyDb
    /\ op = "init"
    /\ arg = NoBook
    /\ full_check = FALSE
    /\ ret = FALSE
    /\ query = NoQuery
    /\ found = {}
    /\ fault = "none"
    /\ closed = FALSE
    /\ raised = FALSE
    /\ InitOthers

NextShell ==
    \/ SearchForBooks \/ ViewCart \/ Checkout
    \/ KeyDown \/ KeyUp \/ KeyEnter \/ Interrupt
    \/ AnswerAddToCart \/ AnswerRemove \/ AnswerCheckout

SpecShell == InitShell /\ [][NextShell]_vars

(* tableMenu on its own, called with a list of at most MaxItems items *)
Shelf == {f.book : f \in search_title(Seeded(EmptyDb, Len(SeedBooks)),
                                      StrQuery("Python 101"))}
ItemLists == UNION {[1..n -> Shelf] : n \in 0..MaxItems}

InitTableMenu ==
    /\ db = EmptyDb
    /\ pre = EmptyDb
    /\ op = "init"
    /\ arg = NoBook
    /\ full_check = FALSE
    /\ ret = FALSE
    /\ query = NoQuery
    /\ found = {}
    /\ fault = "none"
    /\ closed = FALSE
    /\ raised = FALSE
    /\ backend = [conn |-> EmptyDb, disk |-> EmptyDb]
    /\ session = NewSession
    /\ attr = "cart"
    /\ got = None
    /\ other = NoBook
    /\ removed = None
    /\ cart = EmptyCart
    /\ log = <<>>
    /\ selected = None
    /\ \E its \in ItemLists :
         /\ pc = "table"
         /\ items = its
         /\ menu_items = MenuItems(buildTable(Header, its), its)
         /\ current_item = 1

NextTableMenu == KeyDown \/ KeyUp \/ KeyEnter

SpecTableMenu == InitTableMenu /\ [][NextTableMenu]_vars

TypeOK ==
    /\ db.books \subseteq [title : Titles, author : Authors, year : Years]
    /\ db.categories \subseteq CategoryNames
    /\ db.coauthors \subseteq CoauthorNames
    /\ op \in {"init", "add_book", "remove_book", "has_book", "close", "search_title",
               "search_author", "search_year", "search_category", "search_coauthor",
               "backend_add_book", "setattr", "getattr", "eq",
               "searchForBooks", "viewCart", "checkout", "checkout_answer",
               "add_to_cart", "remove_from_cart", "key_down", "key_up",
               "key_enter", "interrupt"}
    /\ arg \in Book \cup BookOfTwoAuthors \cup EqBooks
    /\ pc \in {"main", "search_table", "search_menu", "cart_table", "cart_menu",
               "checkout_menu", "table", "returned", "crashed", "exit"}
    /\ DOMAIN session \subseteq AttrNames
    /\ Len(log) <= MaxLog
    /\ \A i \in 1..Len(cart) : cart[i].amt \in 0..MaxQuantity
    /\ ret \in BOOLEAN
    /\ closed \in BOOLEAN
    /\ raised \in BOOLEAN
    /\ fault \in AddStatements \cup {"none"}

(* ---- vocabulary of the properties ---- *)
(* the tags the junction tables of d hold for book's identity triple *)
StoredCategories(d, book) ==
    {j.category : j \in {r \in d.j_book_category : RowKey(r) = BookRow(book)}}
StoredCoauthors(d, book) ==
    {j.coauthor : j \in {r \in d.j_book_coauthor : RowKey(r) = BookRow(book)}}
Stored(d, book) == BookRow(book) \in d.books
SameIdentity(b1, b2) == BookRow(b1) = BookRow(b2)
Added == op = "add_book" /\ ret
Removed == op = "remove_book" /\ ret

(* C1: once add_book(b) has returned True, a quick has_book(b) answers True  *)
(* in every later state up to the next successful remove_book of b's        *)
(* identity triple; once remove_book(b) has returned True, has_book(b)      *)
(* answers False in quick and in full mode until b's triple is added again. *)
(* Stated on each call: what the call establishes, and that every other     *)
(* call keeps the answers has_book gave before it.                          *)
C1_AddedUntilRemoved ==
    /\ Added => has_book(db, arg, FALSE)
    /\ \A b \in Book :
           (has_book(pre, b, FALSE) /\ ~(Removed /\ SameIdentity(arg, b)))
               => has_book(db, b, FALSE)
    /\ Removed => \A b \in Book :
           SameIdentity(arg, b) => ~has_book(db, b, FALSE) /\ ~has_book(db, b, TRUE)
    /\ \A b \in Book :
           (/\ ~has_book(pre, b, FALSE)
            /\ ~(Added /\ SameIdentity(arg, b)))
               => ~has_book(db, b, FALSE) /\ ~has_book(db, b, TRUE)
    /\ (op = "has_book" /\ ~full_check /\ Stored(pre, arg)) => ret
    /\ (op = "has_book" /\ ~Stored(pre, arg)) => ~ret

(* a quick has_book finds the one stored book after a book that carried     *)
(* categories has been added and removed again                              *)
C1_Witness ==
    /\ op = "has_book" /\ ~full_check /\ ret
    /\ Cardinality(db.books) = 1
    /\ db.categories # {} /\ db.j_book_category = {}

(* C2: add_book(b) returns False whenever b's (title, author, year) is      *)
(* already stored, and then all five tables are as before the call, even    *)
(* when b's categories or coauthors differ from the stored book's.          *)
C2_DuplicateAddRejected ==
    (op = "add_book" /\ Stored(pre, arg)) => (~ret /\ db = pre)

C2_Witness ==
    /\ op = "add_book" /\ Stored(pre, arg) /\ ~ret
    /\ StoredCategories(pre, arg) # TagsOf(arg.categories)
    /\ StoredCoauthors(pre, arg) # TagsOf(arg.coauthors)

(* C3: add_book(b) of a book with year > 0 whose triple is not stored       *)
(* returns True, also when a stored book shares two identity components;    *)
(* afterwards b's triple is in books, b's tags are in the tag tables and    *)
(* the junction rows of b are exactly b's categories and b's coauthors.     *)
C3_AddStoresBook ==
    (op = "add_book" /\ arg.year > 0 /\ ~Stored(pre, arg)) =>
        /\ ret
        /\ Stored(db, arg)
        /\ Elems(arg.categories) \subseteq db.categories
        /\ Elems(arg.coauthors) \subseteq db.coauthors
        /\ StoredCategories(db, arg) = Elems(arg.categories)
        /\ StoredCoauthors(db, arg) = Elems(arg.coauthors)

C3_Witness ==
    /\ Added
    /\ \E r \in pre.books :
           r.title = arg.title /\ r.author = arg.author /\ r.year # arg.year
    /\ Cardinality(Elems(arg.categories)) = 2
    /\ Elems(arg.coauthors) # {}

(* C4: has_book(b, full_check=True) returns False whenever the category set *)
(* or the coauthor set stored for b's triple differs from b's own set.      *)
C4_FullCheckRejectsDifferentTags ==
    (/\ op = "has_book" /\ full_check /\ Stored(pre, arg)
     /\ \/ StoredCategories(pre, arg) # TagsOf(arg.categories)
        \/ StoredCoauthors(pre, arg) # TagsOf(arg.coauthors))
        => ~ret

(* C5: has_book(b, full_check=True) returns True for every book stored by   *)
(* a successful add_book and not removed since, whatever its combination of *)
(* categories and coauthors and whatever else is stored, and False for a    *)
(* book whose triple is not stored.                                         *)
C5_FullCheckFindsStoredBook ==
    /\ Added => has_book(db, arg, TRUE)
    /\ \A b \in Book :
           (has_book(pre, b, TRUE) /\ ~(Removed /\ SameIdentity(arg, b)))
               => has_book(db, b, TRUE)
    /\ (/\ op = "has_book" /\ full_check /\ Stored(pre, arg)
        /\ StoredCategories(pre, arg) = TagsOf(arg.categories)
        /\ StoredCoauthors(pre, arg) = TagsOf(arg.coauthors)) => ret
    /\ (op = "has_book" /\ full_check /\ ~Stored(pre, arg)) => ~ret

C5_Witness ==
    /\ op = "has_book" /\ full_check /\ ret
    /\ Cardinality(db.books) = 2
    /\ StoredCategories(db, arg) = CategoryNames
    /\ StoredCoauthors(db, arg) = {}
    /\ arg.coauthors = None

(* C6: has_book(b) in quick mode returns True exactly when a book row with  *)
(* b's (title, author, year) is stored, whatever b's tags and whatever tags *)
(* are stored for that triple.                                              *)
C6_QuickCheckIsIdentity ==
    (op = "has_book" /\ ~full_check) => (ret <=> Stored(pre, arg))

C6_Witness ==
    /\ op = "has_book" /\ ~full_check /\ ret
    /\ StoredCategories(pre, arg) # TagsOf(arg.categories)
    /\ \E r \in pre.books : r.year # arg.year

(* C7: remove_book(b) returns False when b's (title, author, year) is not   *)
(* stored, and then all five tables are as before the call.                 *)
C7_RemoveAbsentRejected ==
    (op = "remove_book" /\ ~Stored(pre, arg)) => (~ret /\ db = pre)

C7_Witness ==
    /\ op = "remove_book" /\ ~Stored(pre, arg) /\ ~ret
    /\ arg.year > 0
    /\ \E r \in pre.books : r.title = arg.title /\ r.author = arg.author
    /\ pre.j_book_category # {}

(* C8: a successful remove_book(b) deletes b's book row and the junction    *)
(* rows carrying b's triple and nothing else: the tag tables, the other     *)
(* book rows and the other books' junction rows are unchanged.              *)
C8_RemoveDeletesOnlyTheBook ==
    Removed =>
        /\ Stored(pre, arg)
        /\ db.books = pre.books \ {BookRow(arg)}
        /\ db.j_book_category =
               {j \in pre.j_book_category : RowKey(j) # BookRow(arg)}
        /\ db.j_book_coauthor =
               {j \in pre.j_book_coauthor : RowKey(j) # BookRow(arg)}
        /\ db.categories = pre.categories
        /\ db.coauthors = pre.coauthors

C8_Witness ==
    /\ Removed
    /\ StoredCategories(pre, arg) # {} /\ StoredCoauthors(pre, arg) # {}
    /\ db.books # {} /\ db.j_book_category # {} /\ db.j_book_coauthor # {}

(* C9: in every reachable state each junction row references a stored book  *)
(* row and a tag of the corresponding tag table.                            *)
C9_NoDanglingJunctionRows ==
    /\ \A j \in db.j_book_category :
           RowKey(j) \in db.books /\ j.category \in db.categories
    /\ \A j \in db.j_book_coauthor :
           RowKey(j) \in db.books /\ j.coauthor \in db.coauthors

C9_Witness ==
    /\ Removed
    /\ StoredCategories(pre, arg) # {} /\ StoredCoauthors(pre, arg) # {}
    /\ db.j_book_category # {} /\ db.j_book_coauthor = {}

(* C10: every stored book has year > 0; add_book of a book with year <= 0   *)
(* returns False and stores no book row, no tag and no junction row.        *)
C10_YearPositive ==
    /\ \A r \in db.books : r.year > 0
    /\ (op = "add_book" /\ arg.year <= 0) => (~ret /\ db = pre)

C10_Witness ==
    /\ op = "add_book" /\ arg.year <= 0 /\ ~ret
    /\ Truthy(arg.categories) /\ Truthy(arg.coauthors)
    /\ db.books # {}

(* ---- vocabulary of the search properties ---- *)
SearchOps == {"search_title", "search_author", "search_year", "search_category",
              "search_coauthor"}
Searched == op \in SearchOps /\ ~raised
(* the identity triples of the books a search returned *)
FoundRows == {BookRow(f.book) : f \in found}
(* the stored tags of a row, by the junction rows *)
RowCategories(d, r) == {j.category : j \in {x \in d.j_book_category : RowKey(x) = r}}
RowCoauthors(d, r) == {j.coauthor : j \in {x \in d.j_book_coauthor : RowKey(x) = r}}
SameIgnoringCase(s1, s2) == Lower(s1) = Lower(s2)

(* C11: add_book is atomic: when a storage error occurs at any statement of *)
(* its try block the call returns False and none of the rows it inserted    *)
(* before the error is in the tables afterwards (so none can be committed   *)
(* by a later call); when it returns True all of its rows are stored.       *)
C11_AddBookAtomic ==
    op = "add_book" =>
        /\ fault # "none" => ~ret
        /\ ~ret => db = pre
        /\ ret => /\ Stored(db, arg)
                  /\ Elems(arg.categories) \subseteq db.categories
                  /\ Elems(arg.coauthors) \subseteq db.coauthors
                  /\ StoredCategories(db, arg) = Elems(arg.categories)
                  /\ StoredCoauthors(db, arg) = Elems(arg.coauthors)

(* the last statement fails after the book row, a new category and its     *)
(* junction row have been inserted                                          *)
C11_Witness ==
    /\ op = "add_book" /\ fault = "j_book_coauthor" /\ ~ret
    /\ ~Stored(pre, arg) /\ arg.year > 0
    /\ Elems(arg.categories) # {} /\ Elems(arg.categories) \cap pre.categories = {}
    /\ pre.books # {}

(* C12: no persistence operation ever raises to its caller: on every        *)
(* storage-layer error, a connection closed by close() included, it returns *)
(* False or an empty sequence.                                              *)
C12_NeverRaises ==
    op \in SearchOps \cup {"add_book", "remove_book", "has_book"} =>
        /\ ~raised
        /\ closed => (~ret /\ found = {})

(* C13: search_title(q) and search_author(q) return exactly the stored      *)
(* books whose title (author) equals q when letter case is ignored: the     *)
(* stored title itself, upper-cased or lower-cased finds the book, a query  *)
(* equal to no stored title finds nothing.                                  *)
C13_TitleAuthorIgnoreCase ==
    /\ (op = "search_title" /\ ~raised) =>
           FoundRows = {b \in pre.books : SameIgnoringCase(b.title, query.value)}
    /\ (op = "search_author" /\ ~raised) =>
           FoundRows = {b \in pre.books : SameIgnoringCase(b.author, query.value)}

(* C14: search_category and search_coauthor, given one tag or a collection  *)
(* of tags, match the stored tags ignoring letter case: a book with         *)
(* category (coauthor) c is in the result for c, c upper-cased, c           *)
(* lower-cased and for a collection of such tags.                          *)
C14_TagSearchIgnoresCase ==
    /\ (op = "search_category" /\ ~raised) =>
           \A b \in pre.books :
               (\E c \in RowCategories(pre, b) :
                    IF IsCollection(query)
                    THEN \E t \in query.value : SameIgnoringCase(c, t)
                    ELSE SameIgnoringCase(c, query.value))
                   => b \in FoundRows
    /\ (op = "search_coauthor" /\ ~raised) =>
           \A b \in pre.books :
               (\E c \in RowCoauthors(pre, b) :
                    IF IsCollection(query)
                    THEN \E t \in query.value : SameIgnoringCase(c, t)
                    ELSE SameIgnoringCase(c, query.value))
                   => b \in FoundRows

(* C15: search_year(y) returns exactly the stored books of year y;          *)
(* search_year((low, high)) exactly those with low <= year <= high, both    *)
(* bounds included, and nothing when no stored year is in the range.        *)
C15_SearchYear ==
    (op = "search_year" /\ ~raised) =>
        /\ query.kind = "int" =>
               FoundRows = {b \in pre.books : b.year = query.value}
        /\ query.kind = "tuple" =>
               FoundRows = {b \in pre.books :
                                query.value[1] <= b.year /\ b.year <= query.value[2]}
        /\ \A f \in found : f.count = 1

(* a range whose two bounds are the two stored years *)
C15_Witness ==
    /\ op = "search_year" /\ query.kind = "tuple"
    /\ query.value[1] < query.value[2]
    /\ {b.year : b \in pre.books} = {query.value[1], query.value[2]}
    /\ Cardinality(found) = 2

(* C16: search_category(S) and search_coauthor(S) with a collection S       *)
(* return the stored books that have at least one tag in S, each exactly    *)
(* once, also when it has several tags of S.                                *)
C16_CollectionSearchIsUnion ==
    /\ (op = "search_category" /\ ~raised /\ IsCollection(query)) =>
           /\ FoundRows = {b \in pre.books : RowCategories(pre, b) \cap query.value # {}}
           /\ \A f \in found : f.count = 1
           /\ Cardinality(found) = Cardinality(FoundRows)
    /\ (op = "search_coauthor" /\ ~raised /\ IsCollection(query)) =>
           /\ FoundRows = {b \in pre.books : RowCoauthors(pre, b) \cap query.value # {}}
           /\ \A f \in found : f.count = 1
           /\ Cardinality(found) = Cardinality(FoundRows)

(* one book has both tags of S, another one of them *)
C16_Witness ==
    /\ op = "search_category" /\ IsCollection(query)
    /\ Cardinality(query.value) = 2
    /\ Cardinality(found) = 2
    /\ \E b \in pre.books : RowCategories(pre, b) = query.value
    /\ \E b \in pre.books : Cardinality(RowCategories(pre, b)) = 1

(* C17: every book a search returns carries the complete tag sets stored    *)
(* for it at the time of the search, not only the tags the query matched.   *)
C17_SearchHydratesAllTags ==
    Searched =>
        \A f \in found :
            /\ f.book.categories = Some(RowCategories(pre, BookRow(f.book)))
            /\ f.book.coauthors = Some(RowCoauthors(pre, BookRow(f.book)))

(* a search for one category returns a book that has two *)
C17_Witness ==
    /\ op = "search_category" /\ query.kind = "str"
    /\ \E f \in found :
           /\ Cardinality(Elems(f.book.categories)) = 2
           /\ Elems(f.book.coauthors) # {}

(* C18: add-then-search round trip: for every book b stored by a successful *)
(* add_book (its row and exactly its tags are stored), also one created     *)
(* without coauthors or without categories, a search that matches b returns *)
(* a Book that compares equal (==) to b.                                    *)
C18_AddSearchRoundTrip ==
    (op = "search_title" /\ ~raised) =>
        \A b \in Book :
            (/\ Stored(pre, b)
             /\ StoredCategories(pre, b) = Elems(b.categories)
             /\ StoredCoauthors(pre, b) = Elems(b.coauthors)
             /\ b.title = query.value)
                => \E f \in found : BookEq(f.book, b)

(* C19: tags are globally deduplicated and inserting a tag is idempotent:   *)
(* add_book of a new book one of whose tags is already in the tag table     *)
(* (also when the book using it shares title and year, not author)          *)
(* succeeds, leaves the tag table with that one row, and both books have    *)
(* their own junction row to the tag.                                       *)
C19_SharedTags ==
    (/\ op = "add_book" /\ arg.year > 0 /\ ~Stored(pre, arg)
     /\ \/ Elems(arg.categories) \cap pre.categories # {}
        \/ Elems(arg.coauthors) \cap pre.coauthors # {}) =>
        /\ ret
        /\ db.categories = pre.categories \cup Elems(arg.categories)
        /\ db.coauthors = pre.coauthors \cup Elems(arg.coauthors)
        /\ StoredCategories(db, arg) = Elems(arg.categories)
        /\ StoredCoauthors(db, arg) = Elems(arg.coauthors)
        /\ pre.j_book_category \subseteq db.j_book_category
        /\ pre.j_book_coauthor \subseteq db.j_book_coauthor

(* the second book shares title, year and a category with the stored one *)
C19_Witness ==
    /\ Added
    /\ \E r \in pre.books :
           /\ r.title = arg.title /\ r.year = arg.year /\ r.author # arg.author
           /\ RowCategories(db, r) \cap StoredCategories(db, arg) # {}
           /\ RowCoauthors(db, r) \cap StoredCoauthors(db, arg) # {}

(* C20: the categories and coauthors tag tables never shrink: a tag once    *)
(* stored stays stored, also after the last book referencing it is removed. *)
C20_TagsNeverShrink ==
    /\ pre.categories \subseteq db.categories
    /\ pre.coauthors \subseteq db.coauthors

(* the removed book was the last one, its tags stay behind *)
C20_Witness ==
    /\ Removed
    /\ StoredCategories(pre, arg) # {} /\ StoredCoauthors(pre, arg) # {}
    /\ db.books = {}
    /\ db.categories = StoredCategories(pre, arg)
    /\ db.coauthors = StoredCoauthors(pre, arg)

(* ---- vocabulary of the shell properties ---- *)
(* the quantity the cart holds for book, 0 when book is no key of it *)
Quantity(c, book) ==
    IF \E i \in 1..Len(c) : c[i].book = book
    THEN c[CHOOSE i \in 1..Len(c) : c[i].book = book].amt
    ELSE 0
CartBooks(c) == {c[i].book : i \in 1..Len(c)}

(* C21: a confirmed checkout on a non-empty cart logs one entry per book in  *)
(* the cart with the quantity held at confirmation and only then empties   *)
(* the cart, so the cart is empty afterwards; a declined checkout, or a     *)
(* checkout on an empty cart, logs nothing and leaves the cart unchanged.   *)
C21_Checkout ==
    [][/\ (op' = "checkout_answer" /\ ret') =>
              /\ cart # EmptyCart
              /\ Len(log') = Len(log) + 1
              /\ SubSeq(log', 1, Len(log)) = log
              /\ Len(log'[Len(log')]) = Len(cart)
              /\ \A i \in 1..Len(cart) :
                     /\ log'[Len(log')][i].amt = cart[i].amt
                     /\ log'[Len(log')][i].title = cart[i].book.title
                     /\ log'[Len(log')][i].author = cart[i].book.author
              /\ cart' = EmptyCart
       /\ (op' = "checkout_answer" /\ ~ret') => (log' = log /\ cart' = cart)
       /\ (op' = "checkout" /\ cart = EmptyCart) =>
              (log' = log /\ cart' = cart /\ pc' = "main")]_vars

(* two books were checked out, the first of them twice *)
C21_Witness ==
    /\ op = "checkout_answer" /\ ret
    /\ cart = EmptyCart
    /\ Len(log) = 1 /\ Len(log[1]) = 2
    /\ log[1][1].amt = 2 /\ log[1][2].amt = 1

(* C27: after any sequence of add-to-cart, remove-from-cart and checkout    *)
(* steps every key of the session cart has quantity >= 1: add-to-cart       *)
(* raises the selected book's quantity by exactly one, remove-from-cart     *)
(* lowers it by exactly one and deletes the entry when it reaches 0.        *)
C27_CartQuantities ==
    /\ [](\A i \in 1..Len(cart) : cart[i].amt >= 1)
    /\ [][/\ (op' = "add_to_cart" /\ ret') =>
                 \A book \in selected :
                     /\ Quantity(cart', book) = Quantity(cart, book) + 1
                     /\ \A b \in CartBooks(cart) \cup CartBooks(cart') :
                            b # book => Quantity(cart', b) = Quantity(cart, b)
          /\ (op' = "remove_from_cart" /\ ret') =>
                 \A book \in selected :
                     /\ Quantity(cart', book) = Quantity(cart, book) - 1
                     /\ Quantity(cart, book) = 1 => book \notin CartBooks(cart')
                     /\ \A b \in CartBooks(cart) \cup CartBooks(cart') :
                            b # book => Quantity(cart', b) = Quantity(cart, b)]_vars

(* the one copy of a book has been removed and its entry is gone, the      *)
(* other book is in the cart twice                                         *)
C27_Witness ==
    /\ op = "remove_from_cart" /\ ret
    /\ Len(cart) = 1 /\ cart[1].amt = 2
    /\ \E book \in selected : book \notin CartBooks(cart)

C29_CursorOnRows ==
    /\ [](Len(items) >= 1 =>
            /\ pc \in {"table", "returned"}
            /\ current_item % 2 = 1
            /\ current_item >= 1 /\ current_item <= 2 * Len(items) - 1
            /\ menu_items[current_item + 1] # None
            /\ pc = "returned" =>
                   selected = Some(items[((current_item - 1) \div 2) + 1]))
    /\ [][Len(items) >= 1 =>
            /\ (op' = "key_down" /\ current_item = 2 * Len(items) - 1) =>
                   current_item' = 1
            /\ (op' = "key_up" /\ current_item = 1) =>
                   current_item' = 2 * Len(items) - 1
            /\ (op' = "key_down" /\ current_item < 2 * Len(items) - 1) =>
                   current_item' = current_item + 2
            /\ (op' = "key_up" /\ current_item > 1) =>
                   current_item' = current_item - 2]_vars

(* the last of three rows is returned *)
C29_Witness ==
    /\ pc = "returned" /\ op = "key_enter"
    /\ Len(items) = 3 /\ current_item = 5
    /\ selected = Some(items[3])

(* C22: reading an attribute of a Session that was never set returns None   *)
(* and does not raise; reading an attribute after setting it returns the    *)
(* value that was set.                                                      *)
C22_SessionAttributes ==
    op = "getattr" =>
        /\ ~raised
        /\ got = IF attr \in DOMAIN session THEN Some(session[attr]) ELSE None

(* C23: two Book values compare equal if and only if all five fields are    *)
(* equal: same title, author and year, equal category sets and equal        *)
(* coauthor sets; books that share the identity triple but differ in        *)
(* categories or coauthors (absent versus present included) are unequal.    *)
C23_BookEquality ==
    op = "eq" =>
        (ret <=> /\ arg.title = other.title
                 /\ arg.author = other.author
                 /\ arg.year = other.year
                 /\ (arg.categories = None) = (other.categories = None)
                 /\ Elems(arg.categories) = Elems(other.categories)
                 /\ (arg.coauthors = None) = (other.coauthors = None)
                 /\ Elems(arg.coauthors) = Elems(other.coauthors))

(* same identity triple and categories, coauthors absent versus present *)
C23_Witness ==
    /\ op = "eq" /\ ~ret
    /\ SameIdentity(arg, other)
    /\ arg.categories = other.categories
    /\ arg.coauthors = None /\ other.coauthors = Some({"Boop"})

(* the (category, coauthor) combinations stored for book's triple with the  *)
(* category among book's categories and the coauthor among book's           *)
(* coauthors; a dimension book does not give is not joined: one combination *)
MatchingCombinations(d, book) ==
    LET cs == IF Truthy(book.categories)
              THEN StoredCategories(d, book) \cap Elems(book.categories)
              ELSE {NoJoin}
        as == IF Truthy(book.coauthors)
              THEN StoredCoauthors(d, book) \cap Elems(book.coauthors)
              ELSE {NoJoin}
    IN  IF Stored(d, book) THEN Cardinality(cs \X as) ELSE 0

(* C24: has_book(b, full_check=True) returns True exactly when the number   *)
(* of (category, coauthor) combinations stored for b's identity triple      *)
(* whose category is in b.categories and whose coauthor is in b.coauthors   *)
(* equals max(|b.categories|, 1) * max(|b.coauthors|, 1), an absent or      *)
(* empty dimension of b being not joined and counting as size 1.            *)
C24_FullCheckCount ==
    (op = "has_book" /\ full_check) =>
        (ret <=> MatchingCombinations(db, arg) =
                     Max(Cardinality(Elems(arg.categories)), 1)
                         * Max(Cardinality(Elems(arg.coauthors)), 1))

(* two categories and a coauthor are asked for and all are stored *)
C24_Witness ==
    /\ op = "has_book" /\ full_check /\ ret
    /\ Cardinality(Elems(arg.categories)) = 2
    /\ Cardinality(Elems(arg.coauthors)) = 1

(* what the searches that match book return for book's identity triple *)
FoundFor(d, book) ==
    {f.book : f \in {x \in search_title(d, StrQuery(book.title))
                            \cup search_author(d, StrQuery(book.author))
                            \cup search_year(d, IntQuery(book.year))
                            \cup UNION {search_category(d, StrQuery(c)) :
                                            c \in CategoryNames}
                            \cup UNION {search_coauthor(d, StrQuery(c)) :
                                            c \in CoauthorNames} :
                        BookRow(x.book) = BookRow(book)}}

(* C25: update by remove-then-add leaves no residue: after remove_book(b)   *)
(* has succeeded and add_book(b2) has succeeded for a b2 with b's identity   *)
(* triple and other categories or coauthors, the junction rows of the       *)
(* triple are exactly b2's tags and the searches hydrate the book with      *)
(* b2's tags only.                                                          *)
C25_UpdateLeavesNoResidue ==
    (op = "add_book" /\ ret /\ \E b \in removed : SameIdentity(b, arg)) =>
        /\ StoredCategories(db, arg) = TagsOf(arg.categories)
        /\ StoredCoauthors(db, arg) = TagsOf(arg.coauthors)
        /\ FoundFor(db, arg) # {}
        /\ \A f \in FoundFor(db, arg) :
               /\ Elems(f.categories) = TagsOf(arg.categories)
               /\ Elems(f.coauthors) = TagsOf(arg.coauthors)

(* the removed book had two categories and a coauthor, the added one has   *)
(* one of the categories and no coauthor                                   *)
C25_Witness ==
    /\ op = "add_book" /\ ret
    /\ \E b \in removed :
           /\ SameIdentity(b, arg)
           /\ Elems(b.categories) = {"programming", "python"}
           /\ Elems(b.coauthors) = {"Boop"}
    /\ arg.categories = Some({"python"})
    /\ arg.coauthors = None

C30_BackendNoPartialWrite ==
    /\ (op = "backend_add_book" /\ ~ret) => backend.conn = pre
    /\ backend.conn = backend.disk

====
